---- MODULE Spec2Model ----
(***************************************************************************)
(* Model of the Python wRPC Resolver binding (rpc/wrpc/python/src/         *)
(* resolver.rs) and of the wallet key wrappers PublicKey / XOnlyPublicKey  *)
(* (wallet/keys/src/publickey.rs).                                         *)
(*                                                                         *)
(* Option<T> is modelled as a sequence of length at most one: <<>> is      *)
(* None and <<v>> is Some(v).  Result<T, E> is a record, [ok |-> TRUE,     *)
(* val |-> v] or [ok |-> FALSE, err |-> e].                                *)
(***************************************************************************)
EXTENDS Integers, Sequences, FiniteSets, TLC

VARIABLES
    given,      \* Option: the arguments the Resolver constructor was called with
    resolver,   \* Option: the Resolver object (its NativeResolver)
    pending,    \* the lookups started by get_node / get_url and not yet resolved
    last,       \* the last thing handed to the caller of the Resolver
    netCall,    \* Option: the last into_network_id call and its result
    keyIn,      \* Option: the string the key in pk / xpk was parsed from
    pk,         \* Option: the PublicKey object
    xpk,        \* Option: the XOnlyPublicKey object
    out         \* the last thing handed to the caller of the key API

vars == <<given, resolver, pending, last, netCall, keyIn, pk, xpk, out>>

resolverVars == <<given, resolver, pending, last>>
keyVars == <<keyIn, pk, xpk, out>>

Ok(v) == [ok |-> TRUE, val |-> v]
Err(e) == [ok |-> FALSE, err |-> e]

(***************************************************************************)
(* Bounds.                                                                 *)
(***************************************************************************)
MaxSuffix == 30     \* network suffixes 0..MaxSuffix given to into_network_id
MaxPending == 2     \* lookups in flight at once
MaxKeyLen == 3      \* length of the strings given to the key constructors

(***************************************************************************)
(* Network identifiers: into_network_id.                                   *)
(***************************************************************************)
NetworkTypes == {"mainnet", "testnet", "devnet", "simnet"}
NetworkTokens == NetworkTypes \cup {"bogus"}
SuffixArgs == {<<>>} \cup {<<n>> : n \in 0..MaxSuffix}

\* NetworkType::from_str: the fixed enumeration, an error otherwise.
NetworkTypeFromStr(s) ==
    IF s \in NetworkTypes THEN Ok(s) ELSE Err("InvalidNetworkType")

\* The network types that have no single canonical instance.
RequiresSuffix(network_type) == network_type = "devnet"

\* NetworkId::try_from(NetworkType): the canonical, suffix-free identifier.
NetworkIdTryFrom(network_type) ==
    IF RequiresSuffix(network_type)
    THEN Err("MissingNetworkSuffix")
    ELSE Ok([network_type |-> network_type, suffix |-> <<>>])

\* NetworkId::with_suffix.
NetworkIdWithSuffix(network_type, suffix) ==
    [network_type |-> network_type, suffix |-> <<suffix>>]

\* A slip: the suffix is combined in whenever one is given.
IntoNetworkIdSuffixFirst(network, network_suffix) ==
    LET network_type == NetworkTypeFromStr(network) IN
    IF ~network_type.ok THEN Err("InvalidNetworkType")
    ELSE IF network_suffix # <<>>
         THEN Ok(NetworkIdWithSuffix(network_type.val, network_suffix[1]))
         ELSE IF NetworkIdTryFrom(network_type.val).ok
              THEN NetworkIdTryFrom(network_type.val)
              ELSE Err("SuffixRequired")

\* into_network_id: "Invalid network type" is InvalidNetworkType and
\* "Network suffix required for this network" is SuffixRequired.
IntoNetworkId(network, network_suffix) ==
    LET network_type == NetworkTypeFromStr(network) IN
    IF ~network_type.ok THEN Err("InvalidNetworkType")
    ELSE LET canonical == NetworkIdTryFrom(network_type.val) IN
         IF canonical.ok THEN canonical
         ELSE IF network_suffix = <<>>
              THEN Err("SuffixRequired")
              ELSE Ok(NetworkIdWithSuffix(network_type.val, network_suffix[1]))

\* One call of into_network_id.
IntoNetworkIdCall(network, network_suffix) ==
    /\ netCall' = <<[network |-> network, suffix |-> network_suffix,
                     result |-> IntoNetworkId(network, network_suffix)]>>
    /\ UNCHANGED <<resolverVars, keyVars>>

(***************************************************************************)
(* The Resolver.                                                           *)
(***************************************************************************)
EncodingArgs == {"borsh", "json", "xml"}
CallNetworks == {"mainnet", "devnet", "bogus"}
CallSuffixes == {<<>>, <<5>>}

\* The URL lists given to the constructor.
UrlLists ==
    {<<>>, <<"wss://a">>, <<"wss://b">>, <<"wss://a", "wss://b">>,
     <<"wss://b", "wss://a">>}

\* WrpcEncoding::from_str.
WrpcEncodingFromStr(s) ==
    CASE s = "borsh" -> Ok("Borsh")
      [] s = "json" -> Ok("SerdeJson")
      [] OTHER -> Err("InvalidEncoding")

\* What each endpoint serves: the encodings and the networks it supports.
Serves(url) ==
    CASE url = "wss://a" ->
            [encodings |-> {"Borsh"},
             networks |-> {[network_type |-> "mainnet", suffix |-> <<>>],
                           [network_type |-> "devnet", suffix |-> <<5>>]}]
      [] url = "wss://b" ->
            [encodings |-> {"Borsh", "SerdeJson"},
             networks |-> {[network_type |-> "mainnet", suffix |-> <<>>]}]

Supports(url, encoding, network_id) ==
    /\ encoding \in Serves(url).encodings
    /\ network_id \in Serves(url).networks

\* NativeResolver::default(): the built-in pool.
DefaultPool == <<"wss://a", "wss://b">>
NativeResolverDefault == [kind |-> "default"]

\* NativeResolver::new(Some(urls), tls).
NativeResolverNew(urls, tls) == [kind |-> "explicit", urls |-> urls, tls |-> tls]

\* NativeResolver::urls(): the explicit list, None for the default resolver.
NativeUrls(r) == IF r.kind = "explicit" THEN <<r.urls>> ELSE <<>>

Pool(r) == IF r.kind = "explicit" THEN r.urls ELSE DefaultPool

RECURSIVE FirstMatch(_, _, _)
FirstMatch(pool, encoding, network_id) ==
    IF pool = <<>> THEN <<>>
    ELSE IF Supports(Head(pool), encoding, network_id) THEN <<Head(pool)>>
    ELSE FirstMatch(Tail(pool), encoding, network_id)

\* NativeResolver::get_node: the first endpoint of the pool that supports the
\* encoding and the network.
NativeGetNode(r, encoding, network_id) ==
    LET hit == FirstMatch(Pool(r), encoding, network_id) IN
    IF hit = <<>> THEN Err("NoViableEndpoint")
    ELSE Ok([url |-> hit[1], encoding |-> encoding, network_id |-> network_id])

\* NativeResolver::get_url.
NativeGetUrl(r, encoding, network_id) ==
    LET node == NativeGetNode(r, encoding, network_id) IN
    IF node.ok THEN Ok(node.val.url) ELSE node

\* A slip: the tls argument defaults to true and reaches the default resolver.
CtorFnTlsTrue(urls, tls) ==
    LET t == IF tls = <<>> THEN TRUE ELSE tls[1] IN
    IF urls # <<>> THEN NativeResolverNew(urls[1], t)
    ELSE [kind |-> "default", tls |-> t]

\* Resolver::ctor.
CtorFn(urls, tls) ==
    LET t == IF tls = <<>> THEN FALSE ELSE tls[1] IN
    IF urls # <<>> THEN NativeResolverNew(urls[1], t)
    ELSE NativeResolverDefault

RECURSIVE Reverse(_)
Reverse(s) == IF s = <<>> THEN <<>> ELSE Append(Reverse(Tail(s)), Head(s))

\* A slip: the list comes back in the reverse order.
UrlsFnReversed(r) ==
    LET u == NativeUrls(r) IN IF u = <<>> THEN <<>> ELSE Reverse(u[1])

\* Resolver::urls: unwrap_or_default, then a copy of each URL in order.
UrlsFn(r) ==
    LET u == NativeUrls(r) IN IF u = <<>> THEN <<>> ELSE u[1]

\* A slip: the encoding argument is dropped and Borsh is used.
ParseArgsBorsh(encoding, network, network_suffix) ==
    LET enc == WrpcEncodingFromStr(encoding)
        nid == IntoNetworkId(network, network_suffix) IN
    IF ~enc.ok THEN [kind |-> "panic"]
    ELSE IF ~nid.ok THEN [kind |-> "error", err |-> nid.err]
    ELSE [kind |-> "parsed", encoding |-> "Borsh", network_id |-> nid.val]

\* The first two statements of get_node, get_url and connect: the encoding is
\* parsed and unwrapped (a panic on Err), then the network with `?`.
ParseArgs(encoding, network, network_suffix) ==
    LET enc == WrpcEncodingFromStr(encoding)
        nid == IntoNetworkId(network, network_suffix) IN
    IF ~enc.ok THEN [kind |-> "panic"]
    ELSE IF ~nid.ok THEN [kind |-> "error", err |-> nid.err]
    ELSE [kind |-> "parsed", encoding |-> enc.val, network_id |-> nid.val]

Call(op, encoding, network, network_suffix) ==
    [op |-> op, encoding |-> encoding, network |-> network, suffix |-> network_suffix]

\* Resolver::ctor as a step.
Ctor(urls, tls) ==
    /\ resolver = <<>>
    /\ given' = <<[urls |-> urls, tls |-> tls]>>
    /\ resolver' = <<CtorFn(urls, tls)>>
    /\ last' = [kind |-> "constructed"]
    /\ UNCHANGED <<pending, netCall, keyVars>>

\* Resolver::urls as a step.
UrlsCall ==
    /\ resolver # <<>>
    /\ last' = [kind |-> "urls", res |-> UrlsFn(resolver[1])]
    /\ UNCHANGED <<given, resolver, pending, netCall, keyVars>>

\* get_node / get_url up to the return of the awaitable: the arguments are
\* parsed, the resolver is cloned and the future is handed to the event loop.
\* The pending lookups and what the caller receives.
StartLookup(op, encoding, network, network_suffix) ==
    LET args == ParseArgs(encoding, network, network_suffix)
        call == Call(op, encoding, network, network_suffix) IN
    IF args.kind = "parsed"
    THEN [pending |-> pending \cup
                {[op |-> op, requested |-> [encoding |-> encoding, network |-> network],
                  encoding |-> args.encoding, network_id |-> args.network_id,
                  resolver |-> resolver[1]]},
          last |-> [kind |-> "awaitable", call |-> call]]
    ELSE [pending |-> pending,
          last |-> [kind |-> args.kind, call |-> call,
                    err |-> IF args.kind = "error" THEN args.err ELSE "panic"]]

\* Resolver::get_node as a step.
GetNode(encoding, network, network_suffix) ==
    /\ resolver # <<>>
    /\ ParseArgs(encoding, network, network_suffix).kind = "parsed"
          => Cardinality(pending) < MaxPending
    /\ pending' = StartLookup("get_node", encoding, network, network_suffix).pending
    /\ last' = StartLookup("get_node", encoding, network, network_suffix).last
    /\ UNCHANGED <<given, resolver, netCall, keyVars>>

\* Resolver::get_url as a step.
GetUrl(encoding, network, network_suffix) ==
    /\ resolver # <<>>
    /\ ParseArgs(encoding, network, network_suffix).kind = "parsed"
          => Cardinality(pending) < MaxPending
    /\ pending' = StartLookup("get_url", encoding, network, network_suffix).pending
    /\ last' = StartLookup("get_url", encoding, network, network_suffix).last
    /\ UNCHANGED <<given, resolver, netCall, keyVars>>

\* The future of get_node / get_url runs to its end and resolves the awaitable.
Resolve(task) ==
    /\ task \in pending
    /\ pending' = pending \ {task}
    /\ last' = [kind |-> "resolved", op |-> task.op, requested |-> task.requested,
                network_id |-> task.network_id,
                res |-> IF task.op = "get_node"
                        THEN NativeGetNode(task.resolver, task.encoding, task.network_id)
                        ELSE NativeGetUrl(task.resolver, task.encoding, task.network_id)]
    /\ UNCHANGED <<given, resolver, netCall, keyVars>>

\* The caller drops the awaitable of a pending call.
Abandon(task) ==
    /\ task \in pending
    /\ pending' = pending \ {task}
    /\ last' = [kind |-> "cancelled", op |-> task.op]
    /\ UNCHANGED <<given, resolver, netCall, keyVars>>

\* RpcClient::connect: an endpoint is resolved through the resolver, then the
\* transport handshake opens the session.
ClientConnect(r, encoding, network_id, handshake) ==
    LET node == NativeGetNode(r, encoding, network_id) IN
    IF ~node.ok THEN node
    ELSE IF ~handshake THEN Err("ConnectionFailed")
    ELSE Ok([url |-> node.val.url, encoding |-> encoding,
             network_id |-> network_id, open |-> TRUE])

\* A slip: the result of client.connect is dropped instead of propagated.
ConnectFnUnchecked(r, encoding, network, network_suffix, handshake) ==
    LET args == ParseArgs(encoding, network, network_suffix) IN
    IF args.kind # "parsed"
    THEN [kind |-> args.kind, err |-> IF args.kind = "error" THEN args.err ELSE "panic"]
    ELSE LET session == ClientConnect(r, args.encoding, args.network_id, handshake) IN
         [kind |-> "handle", encoding |-> args.encoding, network_id |-> args.network_id,
          client |-> IF session.ok THEN session.val
                     ELSE [url |-> "", encoding |-> args.encoding,
                           network_id |-> args.network_id, open |-> FALSE]]

\* Resolver::connect: the client is built on a clone of the resolver and
\* connected; the handle is returned only when connect returned Ok.
ConnectFn(r, encoding, network, network_suffix, handshake) ==
    LET args == ParseArgs(encoding, network, network_suffix) IN
    IF args.kind # "parsed"
    THEN [kind |-> args.kind, err |-> IF args.kind = "error" THEN args.err ELSE "panic"]
    ELSE LET session == ClientConnect(r, args.encoding, args.network_id, handshake) IN
         IF ~session.ok THEN [kind |-> "error", err |-> session.err]
         ELSE [kind |-> "handle", encoding |-> args.encoding,
               network_id |-> args.network_id, client |-> session.val]

\* Resolver::connect as a step; the handshake's outcome is the transport's.
Connect(encoding, network, network_suffix) ==
    /\ resolver # <<>>
    /\ \E handshake \in BOOLEAN :
          last' = ConnectFn(resolver[1], encoding, network, network_suffix, handshake)
                  @@ [call |-> Call("connect", encoding, network, network_suffix),
                      handshake |-> handshake]
    /\ UNCHANGED <<given, resolver, pending, netCall, keyVars>>

(***************************************************************************)
(* secp256k1, scaled down: the curve y^2 = x^3 + CurveB over the field of  *)
(* FieldP elements (13 points, a group of prime order like secp256k1's).   *)
(* A byte is one of 0..7 and is written as one hex character; a coordinate *)
(* is one byte.  So an x-only key is 1 byte (for 32), a compressed key 2   *)
(* bytes (for 33) and an uncompressed key 3 bytes (for 65).                *)
(***************************************************************************)
FieldP == 7
CurveB == 3

Bytes == 0..7
\* The characters of a key string: the hex digits and 8, which is none.
KeyChars == Bytes \cup {8}

RECURSIVE SeqsUpTo(_, _)
SeqsUpTo(S, n) ==
    IF n = 0 THEN {<<>>}
    ELSE LET shorter == SeqsUpTo(S, n - 1) IN
         shorter \cup {Append(s, x) : s \in shorter, x \in S}

KeyStrings == SeqsUpTo(KeyChars, MaxKeyLen)

OnCurve(x, y) ==
    /\ x \in 0..(FieldP - 1)
    /\ y \in 0..(FieldP - 1)
    /\ (y * y) % FieldP = (x * x * x + CurveB) % FieldP

\* All values of secp256k1::PublicKey.
AllPublicKeys == {k \in [x : 0..(FieldP - 1), y : 0..(FieldP - 1)] : OnCurve(k.x, k.y)}

IsHex(s) == \A i \in 1..Len(s) : s[i] \in Bytes

\* secp256k1::PublicKey::from_slice: 02/03 and x, or 04/06/07 and x, y.
PublicKeyFromSlice(bytes) ==
    IF Len(bytes) = 2 /\ bytes[1] \in {2, 3}
    THEN LET ys == {y \in 0..(FieldP - 1) :
                        OnCurve(bytes[2], y) /\ y % 2 = bytes[1] - 2} IN
         IF ys = {} THEN Err("InvalidPublicKey")
         ELSE Ok([x |-> bytes[2], y |-> CHOOSE y \in ys : TRUE])
    ELSE IF Len(bytes) = 3 /\ bytes[1] \in {4, 6, 7}
    THEN IF /\ OnCurve(bytes[2], bytes[3])
            /\ (bytes[1] = 4 \/ bytes[3] % 2 = bytes[1] - 6)
         THEN Ok([x |-> bytes[2], y |-> bytes[3]])
         ELSE Err("InvalidPublicKey")
    ELSE Err("InvalidPublicKey")

\* secp256k1::PublicKey::from_str: hex, then from_slice.
PublicKeyFromStr(s) ==
    IF IsHex(s) THEN PublicKeyFromSlice(s) ELSE Err("InvalidPublicKey")

\* secp256k1::XOnlyPublicKey::from_slice: 32 bytes, an x of the curve.
XOnlyFromSlice(bytes) ==
    IF Len(bytes) = 1 /\ \E y \in 0..(FieldP - 1) : OnCurve(bytes[1], y)
    THEN Ok([x |-> bytes[1]])
    ELSE Err("InvalidPublicKey")

\* secp256k1::XOnlyPublicKey::from_str.
XOnlyFromStr(s) ==
    IF IsHex(s) THEN XOnlyFromSlice(s) ELSE Err("InvalidPublicKey")

\* secp256k1::PublicKey::serialize: the compressed form, parity kept.
PublicKeySerialize(k) == <<2 + (k.y % 2), k.x>>

\* secp256k1::XOnlyPublicKey::serialize.
XOnlySerialize(k) == <<k.x>>

\* secp256k1::PublicKey::x_only_public_key: the x-only key and the parity.
XOnlyOf(k) == <<[x |-> k.x], k.y % 2>>

RECURSIVE Mix(_, _)
Mix(bytes, h) ==
    IF bytes = <<>> THEN h ELSE Mix(Tail(bytes), (h * 5 + Head(bytes) + 1) % 64)

\* Ripemd160::digest(Sha256::digest(..)), scaled down to two bytes.
Hash160(bytes) == <<Mix(bytes, 0) \div 8, Mix(bytes, 0) % 8>>

(***************************************************************************)
(* PublicKey and XOnlyPublicKey.                                           *)
(***************************************************************************)
\* Prefix::from(NetworkType).
Prefix(network_type) ==
    CASE network_type = "mainnet" -> "kaspa"
      [] network_type = "testnet" -> "kaspatest"
      [] network_type = "simnet" -> "kaspasim"
      [] network_type = "devnet" -> "kaspadev"

\* Address::new.
AddressNew(prefix, version, payload) ==
    [prefix |-> prefix, version |-> version, payload |-> payload]

\* impl From<&secp256k1::PublicKey> for PublicKey.
FromSecp(public_key) ==
    [xonly_public_key |-> XOnlyOf(public_key)[1], public_key |-> <<public_key>>]

\* A slip: the full key is dropped once its x-only projection is taken.
TryNewFnProjected(key) ==
    LET full == PublicKeyFromStr(key) IN
    IF full.ok
    THEN Ok([xonly_public_key |-> XOnlyOf(full.val)[1], public_key |-> <<>>])
    ELSE LET xonly == XOnlyFromStr(key) IN
         IF xonly.ok THEN Ok([xonly_public_key |-> xonly.val, public_key |-> <<>>])
         ELSE Err("InvalidKeyFormat")

\* PublicKey::try_new / try_new_py: the full form first, then x-only with `?`.
TryNewFn(key) ==
    LET full == PublicKeyFromStr(key) IN
    IF full.ok THEN Ok(FromSecp(full.val))
    ELSE LET xonly == XOnlyFromStr(key) IN
         IF xonly.ok THEN Ok([xonly_public_key |-> xonly.val, public_key |-> <<>>])
         ELSE Err("InvalidKeyFormat")

\* A slip: the Schnorr payload is the full serialization when there is one.
ToAddressFnFullPayload(k, network_type) ==
    Ok(AddressNew(Prefix(network_type), "PubKey",
                  IF k.public_key # <<>> THEN PublicKeySerialize(k.public_key[1])
                  ELSE XOnlySerialize(k.xonly_public_key)))

\* PublicKey::to_address.
ToAddressFn(k, network_type) ==
    Ok(AddressNew(Prefix(network_type), "PubKey", XOnlySerialize(k.xonly_public_key)))

\* A slip: the ECDSA payload is built from the x-only projection.
ToAddressEcdsaFnXOnly(k, network_type) ==
    IF k.public_key # <<>>
    THEN Ok(AddressNew(Prefix(network_type), "PubKeyECDSA",
                       <<2>> \o XOnlySerialize(k.xonly_public_key)))
    ELSE Err("MissingFullKey")

\* PublicKey::to_address_ecdsa; Error::InvalidXOnlyPublicKeyForECDSA is
\* MissingFullKey.
ToAddressEcdsaFn(k, network_type) ==
    IF k.public_key # <<>>
    THEN Ok(AddressNew(Prefix(network_type), "PubKeyECDSA",
                       PublicKeySerialize(k.public_key[1])))
    ELSE Err("MissingFullKey")

\* PublicKey::fingerprint: the first 4 bytes of the digest (here, the first).
FingerprintFn(k) ==
    IF k.public_key # <<>>
    THEN <<SubSeq(Hash160(PublicKeySerialize(k.public_key[1])), 1, 1)>>
    ELSE <<>>

\* PublicKey::to_x_only_public_key.
ToXOnlyPublicKeyFn(k) == [inner |-> k.xonly_public_key]

\* XOnlyPublicKey::try_new / try_new_py.
XOnlyTryNewFn(key) ==
    LET xonly == XOnlyFromStr(key) IN
    IF xonly.ok THEN Ok([inner |-> xonly.val]) ELSE Err("InvalidKeyFormat")

\* XOnlyPublicKey::to_address / to_address_py.
XOnlyToAddressFn(xk, network_type) ==
    Ok(AddressNew(Prefix(network_type), "PubKey", XOnlySerialize(xk.inner)))

\* XOnlyPublicKey::to_address_ecdsa / to_address_ecdsa_py.
XOnlyToAddressEcdsaFn(xk, network_type) ==
    Ok(AddressNew(Prefix(network_type), "PubKeyECDSA", XOnlySerialize(xk.inner)))

\* XOnlyPublicKey::from_address / from_address_py.
FromAddressFn(address) ==
    LET xonly == XOnlyFromSlice(address.payload) IN
    IF xonly.ok THEN Ok([inner |-> xonly.val]) ELSE Err("InvalidKeyFormat")

\* The network argument of an entry point, parsed with `?`, then the
\* derivation on the parsed NetworkType.
OnNetwork(network, res) ==
    IF NetworkTypeFromStr(network).ok THEN res ELSE Err("InvalidNetworkType")

\* new PublicKey(key).
TryNew(key) ==
    /\ keyIn = <<>>
    /\ keyIn' = <<key>>
    /\ pk' = IF TryNewFn(key).ok THEN <<TryNewFn(key).val>> ELSE <<>>
    /\ out' = [kind |-> "PublicKey", ok |-> TryNewFn(key).ok]
    /\ UNCHANGED <<xpk, resolverVars, netCall>>

\* new XOnlyPublicKey(key).
XOnlyTryNew(key) ==
    /\ keyIn = <<>>
    /\ keyIn' = <<key>>
    /\ xpk' = IF XOnlyTryNewFn(key).ok THEN <<XOnlyTryNewFn(key).val>> ELSE <<>>
    /\ out' = [kind |-> "XOnlyPublicKey", ok |-> XOnlyTryNewFn(key).ok]
    /\ UNCHANGED <<pk, resolverVars, netCall>>

\* publicKey.to_address(network).
PkToAddress(network) ==
    /\ pk # <<>>
    /\ out' = [kind |-> "address", by |-> "PublicKey", op |-> "to_address",
               network |-> network,
               res |-> OnNetwork(network, ToAddressFn(pk[1], network))]
    /\ UNCHANGED <<keyIn, pk, xpk, resolverVars, netCall>>

\* publicKey.to_address_ecdsa(network).
PkToAddressEcdsa(network) ==
    /\ pk # <<>>
    /\ out' = [kind |-> "address", by |-> "PublicKey", op |-> "to_address_ecdsa",
               network |-> network,
               res |-> OnNetwork(network, ToAddressEcdsaFn(pk[1], network))]
    /\ UNCHANGED <<keyIn, pk, xpk, resolverVars, netCall>>

\* publicKey.fingerprint().
Fingerprint ==
    /\ pk # <<>>
    /\ out' = [kind |-> "fingerprint", res |-> FingerprintFn(pk[1])]
    /\ UNCHANGED <<keyIn, pk, xpk, resolverVars, netCall>>

\* publicKey.to_x_only_public_key().
ToXOnlyPublicKey ==
    /\ pk # <<>>
    /\ xpk' = <<ToXOnlyPublicKeyFn(pk[1])>>
    /\ out' = [kind |-> "to_x_only_public_key"]
    /\ UNCHANGED <<keyIn, pk, resolverVars, netCall>>

\* xOnlyPublicKey.to_address(network).
XOnlyToAddress(network) ==
    /\ xpk # <<>>
    /\ out' = [kind |-> "address", by |-> "XOnlyPublicKey", op |-> "to_address",
               network |-> network,
               res |-> OnNetwork(network, XOnlyToAddressFn(xpk[1], network))]
    /\ UNCHANGED <<keyIn, pk, xpk, resolverVars, netCall>>

\* xOnlyPublicKey.to_address_ecdsa(network).
XOnlyToAddressEcdsa(network) ==
    /\ xpk # <<>>
    /\ out' = [kind |-> "address", by |-> "XOnlyPublicKey", op |-> "to_address_ecdsa",
               network |-> network,
               res |-> OnNetwork(network, XOnlyToAddressEcdsaFn(xpk[1], network))]
    /\ UNCHANGED <<keyIn, pk, xpk, resolverVars, netCall>>

\* XOnlyPublicKey.from_address(address), on the address just derived.
FromAddress ==
    /\ out.kind = "address"
    /\ out.res.ok
    /\ out' = [kind |-> "from_address", address |-> out.res.val,
               res |-> FromAddressFn(out.res.val)]
    /\ xpk' = IF FromAddressFn(out.res.val).ok
              THEN <<FromAddressFn(out.res.val).val>> ELSE xpk
    /\ UNCHANGED <<keyIn, pk, resolverVars, netCall>>

\* The caller lets go of the key objects.
Drop ==
    /\ keyIn # <<>>
    /\ keyIn' = <<>>
    /\ pk' = <<>>
    /\ xpk' = <<>>
    /\ out' = [kind |-> "none"]
    /\ UNCHANGED <<resolverVars, netCall>>

(***************************************************************************)
(* Specifications.                                                         *)
(***************************************************************************)
Init ==
    /\ given = <<>>
    /\ resolver = <<>>
    /\ pending = {}
    /\ last = [kind |-> "none"]
    /\ netCall = <<>>
    /\ keyIn = <<>>
    /\ pk = <<>>
    /\ xpk = <<>>
    /\ out = [kind |-> "none"]

Next ==
    \/ \E urls \in {<<>>} \cup {<<l>> : l \in UrlLists},
          tls \in {<<>>, <<TRUE>>, <<FALSE>>} : Ctor(urls, tls)
    \/ UrlsCall
    \/ \E e \in EncodingArgs, n \in CallNetworks, s \in CallSuffixes : GetNode(e, n, s)
    \/ \E e \in EncodingArgs, n \in CallNetworks, s \in CallSuffixes : GetUrl(e, n, s)
    \/ \E e \in EncodingArgs, n \in CallNetworks, s \in CallSuffixes : Connect(e, n, s)
    \/ \E t \in pending : Resolve(t)
    \/ \E t \in pending : Abandon(t)

Spec == Init /\ [][Next]_vars

NetNext == \E n \in NetworkTokens, s \in SuffixArgs : IntoNetworkIdCall(n, s)

NetSpec == Init /\ [][NetNext]_vars

KeyNext ==
    \/ \E key \in KeyStrings : TryNew(key)
    \/ \E key \in KeyStrings : XOnlyTryNew(key)
    \/ \E n \in NetworkTokens : PkToAddress(n)
    \/ \E n \in NetworkTokens : PkToAddressEcdsa(n)
    \/ Fingerprint
    \/ ToXOnlyPublicKey
    \/ \E n \in NetworkTokens : XOnlyToAddress(n)
    \/ \E n \in NetworkTokens : XOnlyToAddressEcdsa(n)
    \/ FromAddress
    \/ Drop

KeySpec == Init /\ [][KeyNext]_vars

(***************************************************************************)
(* Properties.                                                             *)
(***************************************************************************)
\* The encoding and the network a call asks for, from its arguments.
RequestedEncoding(encoding) == WrpcEncodingFromStr(encoding)
RequestedNetwork(network, network_suffix) == IntoNetworkId(network, network_suffix)

Viable(pool, encoding, network_id) ==
    {i \in 1..Len(pool) : Supports(pool[i], encoding, network_id)}

NetworkIdDecision ==
    netCall # <<>> =>
        LET c == netCall[1] IN
        /\ c.network \notin NetworkTypes => c.result = Err("InvalidNetworkType")
        /\ (c.network \in NetworkTypes /\ ~RequiresSuffix(c.network)) =>
              c.result = Ok([network_type |-> c.network, suffix |-> <<>>])
        /\ (c.network \in NetworkTypes /\ RequiresSuffix(c.network) /\ c.suffix = <<>>) =>
              c.result = Err("SuffixRequired")
        /\ (c.network \in NetworkTypes /\ RequiresSuffix(c.network) /\ c.suffix # <<>>) =>
              c.result = Ok([network_type |-> c.network, suffix |-> c.suffix])
        /\ (c.network = "mainnet" /\ c.suffix = <<>>) =>
              c.result = Ok([network_type |-> "mainnet", suffix |-> <<>>])
        /\ (c.network = "devnet" /\ c.suffix = <<>>) => c.result = Err("SuffixRequired")
        /\ (c.network = "devnet" /\ c.suffix = <<5>>) =>
              c.result = Ok([network_type |-> "devnet", suffix |-> <<5>>])
        /\ (c.network = "bogus" /\ c.suffix = <<>>) => c.result = Err("InvalidNetworkType")

\* into_network_id("mainnet", Some(5)) has returned.
NetworkIdDecisionWitness ==
    /\ netCall # <<>>
    /\ netCall[1].network = "mainnet"
    /\ netCall[1].suffix = <<5>>
    /\ netCall[1].result.ok

CallsEndTyped ==
    last.kind \in {"awaitable", "handle", "error", "panic"} =>
        /\ last.kind # "panic"
        /\ ( \/ ~RequestedEncoding(last.call.encoding).ok
             \/ ~RequestedNetwork(last.call.network, last.call.suffix).ok )
           => last.kind = "error"

GivenUrls == given[1].urls[1]

\* C7: urls() returns the URLs given to the constructor in their order, and no
\* step after the construction (a call of get_url, get_node or connect, a
\* lookup that resolves or fails, a pending call that is abandoned) changes
\* the resolver: the pool and the TLS preference stay as constructed.
PoolFixed ==
    /\ []((resolver # <<>> /\ given[1].urls # <<>>) =>
            /\ UrlsFn(resolver[1]) = GivenUrls
            /\ last.kind = "urls" => last.res = GivenUrls)
    /\ [][resolver # <<>> => (resolver' = resolver /\ given' = given)]_vars

\* urls() has returned the two URLs of the pool while a lookup is in flight.
PoolFixedWitness ==
    /\ last.kind = "urls"
    /\ last.res = <<"wss://b", "wss://a">>
    /\ pending # {}

\* C10: with urls given the pool is exactly those URLs and the TLS preference
\* is the tls argument, false when omitted; with urls omitted the resolver is
\* the default resolver whatever the tls argument.
CtorArguments ==
    resolver # <<>> =>
        LET g == given[1]
            r == resolver[1] IN
        /\ g.urls # <<>> =>
              /\ r.kind = "explicit"
              /\ r.urls = g.urls[1]
              /\ r.tls = (g.tls = <<TRUE>>)
        /\ g.urls = <<>> => r = NativeResolverDefault

\* Resolver(None, true) has been constructed.
CtorArgumentsWitness ==
    /\ resolver # <<>>
    /\ given[1].urls = <<>>
    /\ given[1].tls = <<TRUE>>

\* The string is a valid x-only key and no valid full key.
XOnlyString(key) == XOnlyFromStr(key).ok /\ ~PublicKeyFromStr(key).ok
FullString(key) == PublicKeyFromStr(key).ok

\* C5: a key parsed from a string that is only a valid x-only key has no Full
\* representation, fails to_address_ecdsa with MissingFullKey and has no
\* fingerprint; a key parsed from a valid full key has the Full representation,
\* derives its ECDSA address and has a fingerprint; the full form is tried
\* first and x-only only when it fails.
FullKeyCapabilities ==
    pk # <<>> =>
        LET key == keyIn[1]
            ecdsa == /\ out.kind = "address"
                     /\ out.by = "PublicKey"
                     /\ out.op = "to_address_ecdsa"
                     /\ out.network \in NetworkTypes IN
        /\ (pk[1].public_key # <<>>) <=> FullString(key)
        /\ (pk[1].public_key = <<>>) <=> XOnlyString(key)
        /\ FullString(key) => pk[1].public_key[1] = PublicKeyFromStr(key).val
        /\ XOnlyString(key) =>
              /\ ecdsa => out.res = Err("MissingFullKey")
              /\ out.kind = "fingerprint" => out.res = <<>>
        /\ FullString(key) =>
              /\ ecdsa => (out.res.ok /\ out.res.val.version = "PubKeyECDSA")
              /\ out.kind = "fingerprint" => out.res # <<>>

\* to_address_ecdsa has failed on a key parsed from an x-only string.
FullKeyCapabilitiesWitness ==
    /\ pk # <<>>
    /\ XOnlyString(keyIn[1])
    /\ out.kind = "address"
    /\ out.by = "PublicKey"
    /\ out.op = "to_address_ecdsa"
    /\ out.res = Err("MissingFullKey")

\* The address just derived by a Full PublicKey.
FullKeyAddress ==
    /\ pk # <<>>
    /\ pk[1].public_key # <<>>
    /\ out.kind = "address"
    /\ out.by = "PublicKey"
    /\ out.res.ok

\* What another Full key derives for the same network and version.
AddressOf(k, op, network) ==
    IF op = "to_address" THEN ToAddressFn(FromSecp(k), network).val
    ELSE ToAddressEcdsaFn(FromSecp(k), network).val

SamePayloadAndVersion(a, b) == a.payload = b.payload /\ a.version = b.version

\* C6, as stated: two distinct Full keys, also two that differ only in the
\* parity, never derive the same (payload, version) for a network, for the
\* Schnorr and for the ECDSA address.
DistinctKeysNeverCollide ==
    FullKeyAddress =>
        \A k \in AllPublicKeys \ {pk[1].public_key[1]} :
            ~SamePayloadAndVersion(AddressOf(k, out.op, out.network), out.res.val)

\* C6, amended: two distinct Full keys never derive the same ECDSA (payload,
\* version), and derive the same Schnorr (payload, version) exactly when they
\* have the same x coordinate, that is, differ only in the parity.
DistinctKeysCollideOnParityOnly ==
    FullKeyAddress =>
        \A k \in AllPublicKeys \ {pk[1].public_key[1]} :
            SamePayloadAndVersion(AddressOf(k, out.op, out.network), out.res.val)
                <=> (out.op = "to_address" /\ k.x = pk[1].public_key[1].x)

\* A Full key has derived its ECDSA address.
DistinctKeysWitness ==
    /\ FullKeyAddress
    /\ out.op = "to_address_ecdsa"
    /\ \E k \in AllPublicKeys \ {pk[1].public_key[1]} : k.x = pk[1].public_key[1].x

\* C8: an address with the ECDSA version tag has the full, parity-retaining
\* serialization of a key as its payload, and a key without a Full
\* representation yields no ECDSA address but MissingFullKey.
EcdsaPayloadIsFull ==
    (out.kind = "address" /\ out.op = "to_address_ecdsa"
        /\ out.network \in NetworkTypes) =>
        /\ (out.res.ok /\ out.res.val.version = "PubKeyECDSA") =>
              /\ PublicKeyFromSlice(out.res.val.payload).ok
              /\ PublicKeySerialize(PublicKeyFromSlice(out.res.val.payload).val)
                    = out.res.val.payload
        /\ (out.by = "XOnlyPublicKey" \/ pk[1].public_key = <<>>) =>
              out.res = Err("MissingFullKey")

\* C9: from_address on the Schnorr address built by to_address succeeds with
\* an x-only key whose serialization is the payload of the address.
FromAddressRoundTrip ==
    (out.kind = "from_address" /\ out.address.version = "PubKey") =>
        /\ out.res.ok
        /\ XOnlySerialize(out.res.val.inner) = out.address.payload
        /\ xpk = <<out.res.val>>

\* from_address has returned on the Schnorr address of a Full key.
FromAddressRoundTripWitness ==
    /\ out.kind = "from_address"
    /\ out.address.version = "PubKey"
    /\ out.res.ok
    /\ pk # <<>>
    /\ pk[1].public_key # <<>>
    /\ xpk = <<[inner |-> pk[1].xonly_public_key]>>

====
